---- MODULE Spec2Model ----
(***************************************************************************)
(* The virtual accelerator's main program (virtaccl/virtual_accelerator.py)*)
(* as a state machine: the start-up wiring of the devices, then the        *)
(* periodic loop, with the SNS dummy devices of virtual_devices_SNS.py.    *)
(* Server, Device and the device classes of virtual_devices.py, and the    *)
(* OrbitModel, are not among the source files; they are modelled from      *)
(* their specification and marked so in MODEL_MAP.json.  The SNS_* magnet  *)
(* classes, which main() does not construct, and the BTF child nodes of    *)
(* PyORBIT_Model/BTF/btf_child_nodes.py have specifications of their own,  *)
(* SpecSNS and SpecBTF.                                                    *)
(*                                                                         *)
(* Values are integers.  A device object is a record in `objects`, and its *)
(* identity is its index there; a Parameter is the slot <<id, reason>> of  *)
(* settings / readbacks / measurements.  Noise is not modelled: the values *)
(* are the Parameters' raw values.                                         *)
(***************************************************************************)
EXTENDS Integers, Sequences, FiniteSets, TLC

(* ------------------------------ bounds -------------------------------- *)
\* remote writes carry a value in 0..MaxVal
MaxVal == 1
\* at most MaxWrites remote writes are accepted in one run
MaxWrites == 2
\* the time one tick takes is in 0..MaxElapsed
MaxElapsed == 3
\* the model reports beta (in thousandths of c) in 0..MaxBeta
MaxBeta == 1
\* update_period = 1 / args.refresh_rate, in the time unit of MaxElapsed
update_period == 2

(* -------------------------- configuration ------------------------------ *)
\* devices_dict["Quadrupole"], in the order of the json file
QuadOrder == <<"Q1", "Q2">>
\* devices_dict["Quadrupole_Power_Supply"]
QuadPSOrder == <<"PS_A", "PS_B">>
\* devices_dict["Quadrupole_Power_Shunt"]
ShuntNames == {"SH_1"}
\* devices_dict["Corrector"] and devices_dict["Corrector_Power_Supply"]
CorrOrder == <<"C1", "C2">>
CorrPSNames == {"CPS_A", "CPS_B"}
\* devices_dict["Bend"] and devices_dict["Bend_Power_Supply"]
BendOrder == <<"B1", "B2">>
BendPSNames == {"BPS_A", "BPS_B"}

Range(s) == {s[k] : k \in 1..Len(s)}
QuadNames == Range(QuadOrder)
QuadPSNames == Range(QuadPSOrder)
CorrNames == Range(CorrOrder)
BendNames == Range(BendOrder)

\* dB/dr of a quadrupole element in the lattice
QuadFields == {-2, 1}

\* One entry of devices_dict["Quadrupole"] with what the lattice holds for
\* its element: in_lattice is `ele_name in element_list`; "none" stands for
\* a key that is absent or names no known supply / shunt.
QuadEntries ==
    [in_lattice : BOOLEAN, Polarity : {1, -1}, Power_Supply : QuadPSNames \cup {"none"},
     Power_Shunt : ShuntNames \cup {"none"}, dBdr : QuadFields]
CorrEntries ==
    [in_lattice : BOOLEAN, Polarity : {1, -1}, Power_Supply : CorrPSNames \cup {"none"},
     B : {1}]
BendEntries ==
    [in_lattice : BOOLEAN, Power_Supply : BendPSNames \cup {"none"}]

NoCorrector == [in_lattice |-> FALSE, Polarity |-> 1, Power_Supply |-> "none", B |-> 1]
NoBend == [in_lattice |-> FALSE, Power_Supply |-> "none"]
PlainQuad(ps, pol, f) ==
    [in_lattice |-> TRUE, Polarity |-> pol, Power_Supply |-> ps, Power_Shunt |-> "none",
     dBdr |-> f]

\* every pair of quadrupole entries, no corrector and no bend in the lattice
QuadFamily ==
    [Quadrupole : [QuadNames -> QuadEntries],
     Corrector : {[n \in CorrNames |-> NoCorrector]},
     Bend : {[n \in BendNames |-> NoBend]}]
\* two plain quadrupoles on one supply, every pair of corrector entries
CorrFamily ==
    [Quadrupole : {[n \in QuadNames |-> PlainQuad("PS_A", IF n = "Q1" THEN 1 ELSE -1, 1)]},
     Corrector : [CorrNames -> CorrEntries],
     Bend : {[n \in BendNames |-> NoBend]}]
\* the same with every pair of bend entries
BendFamily ==
    [Quadrupole : {[n \in QuadNames |-> PlainQuad("PS_A", IF n = "Q1" THEN 1 ELSE -1, 1)]},
     Corrector : {[n \in CorrNames |-> NoCorrector]},
     Bend : [BendNames -> BendEntries]]
StartupConfigs == QuadFamily \cup CorrFamily \cup BendFamily

\* the configurations the loop is run with: two quadrupoles on one supply,
\* the second of either polarity, and one corrector with its supply
LoopConfigs ==
    [Quadrupole : {[n \in QuadNames |-> PlainQuad("PS_A", IF n = "Q1" THEN 1 ELSE p, 1)] :
                     p \in {1, -1}},
     Corrector : {[n \in CorrNames |->
                     IF n = "C1"
                     THEN [in_lattice |-> TRUE, Polarity |-> -1, Power_Supply |-> "CPS_A",
                           B |-> 1]
                     ELSE NoCorrector]},
     Bend : {[n \in BendNames |-> NoBend]}]

(* ------------------------------ state ---------------------------------- *)
VARIABLES
    args,              \* the command line: args.print_settings, args.print_pvs
    printed,           \* the PV names main has printed
    config,            \* devices_dict and the lattice's initial fields
    pc,                \* where main() is
    ps_quads,          \* main's dict of the quadrupoles of each supply
    i, j,              \* positions of main's for loops
    ps_device,         \* main's variable: the supply object built last
    objects,           \* every device object constructed, in order
    devices,           \* server.devices: the ids registered, in order
    settings,          \* <<id, reason>> -> raw value of a setting Parameter
    readbacks,         \* <<id, reason>> -> raw value of a readback Parameter
    measurements,      \* <<id, reason>> -> raw value of a measurement Parameter
    model_params,      \* the OrbitModel's element parameters: element -> value
    new_params,        \* main's variable: the last get_settings() snapshot
    new_measurements,  \* main's variable: the last model.get_measurements()
    published,         \* what server.update() flushed last
    ctrlc,             \* the cancel flag not_ctrlc() reads
    loop_time_taken,   \* main's variable, -1 before the tick's timing
    slept,             \* the time.sleep() argument of the tick, -1 if none
    warnings,          \* overrun warnings printed in the tick
    trace,             \* history: the steps of the current tick, in order
    nwrites,           \* history: remote writes accepted so far
    written,           \* history: written pv -> value of its last accepted write
    written_at_collect,\* history: `written` when get_settings() ran last
    meas_at_tick_start,\* history: `measurements` when the tick began
    sns_device,        \* the SNS_* magnet device constructed outside main
    btf_nodes,         \* the BTF child nodes' parameters, in lattice order
    bunch,             \* paramsDict["bunch"]: the particles in the bunch
    paramsDict,        \* the paramsDict of the tracking pass under way
    btf_pos,           \* the node the pass tracks next, 0 when no pass runs
    btf_start          \* history: bunch and btf_nodes when the pass began

startup_vars ==
    <<config, pc, ps_quads, i, j, ps_device, objects, devices, settings, readbacks,
      measurements>>
loop_vars ==
    <<model_params, new_params, new_measurements, published, ctrlc, loop_time_taken,
      slept, warnings, trace, nwrites, written, written_at_collect, meas_at_tick_start>>
main_vars == <<args, printed, startup_vars, loop_vars>>
sns_vars == <<sns_device>>
btf_vars == <<btf_nodes, bunch, paramsDict, btf_pos, btf_start>>
vars == <<main_vars, sns_vars, btf_vars>>

EmptyMap == [x \in {} |-> 0]
Abs(x) == IF x < 0 THEN -x ELSE x
\* math.inf
Inf == 1000000

(* --------------------------- device classes ---------------------------- *)
PSKinds ==
    {"Quadrupole_Power_Supply", "Quadrupole_Power_Shunt", "Corrector_Power_Supply",
     "Bend_Power_Supply"}
MagnetKinds == {"Quadrupole", "Corrector", "Bend"}

\* the PVs each class registers in its constructor, by role
SettingReasons(kind) ==
    IF kind \in PSKinds THEN {"B_Set"}
    ELSE IF kind = "SNS_Dummy_ICS" THEN {"Gate_BeamOn:SSTrigger"}
    ELSE {}
ReadbackReasons(kind) ==
    IF kind \in PSKinds \cup MagnetKinds THEN {"B"} ELSE {}
MeasurementReasons(kind) ==
    IF kind = "SNS_Dummy_BCM" THEN {"FFT_peak2"}
    ELSE IF kind = "SNS_Dummy_ICS" THEN {"Gate_BeamOn:RR", "Util:event46"}
    ELSE {}
Reasons(kind) == SettingReasons(kind) \cup ReadbackReasons(kind) \cup MeasurementReasons(kind)

\* a device object; power_supply and power_shunt are object ids, 0 for None
Device(name, kind, model_name, power_supply, power_shunt, polarity) ==
    [name |-> name, kind |-> kind, model_name |-> model_name,
     power_supply |-> power_supply, power_shunt |-> power_shunt, polarity |-> polarity]

\* the setting Parameter a readback of object id is linked to: a supply's
\* own setting, and for a magnet the setting of its supply
LinkedSetting(o, id) ==
    IF o.kind \in PSKinds THEN <<id, "B_Set">> ELSE <<o.power_supply, "B_Set">>

\* the public PV names of a device: <<device name, reason>>
PVsOf(o) == {<<o.name, r>> : r \in Reasons(o.kind)}

(* The server's state while main() wires the devices: st.err is set once  *)
(* a call has raised, and every later call of the same statement sequence *)
(* is then skipped (the exception leaves main).                           *)
ServerState(objs, devs, setts, rbs, meas) ==
    [objects |-> objs, devices |-> devs, settings |-> setts, readbacks |-> rbs,
     measurements |-> meas, err |-> FALSE]

\* Device.__init__ with its register_setting / register_readback /
\* register_measurement calls: the new object's Parameters, the settings
\* seeded with `default`, a readback with its linked setting's value
Construct(st, o, default) ==
    IF st.err THEN st
    ELSE LET id == Len(st.objects) + 1
             setts == st.settings @@
                        [k \in {<<id, r>> : r \in SettingReasons(o.kind)} |-> default]
         IN [st EXCEPT
               !.objects = Append(@, o),
               !.settings = setts,
               !.readbacks = @ @@ [k \in {<<id, r>> : r \in ReadbackReasons(o.kind)} |->
                                     setts[LinkedSetting(o, id)]],
               !.measurements = @ @@ [k \in {<<id, r>> : r \in MeasurementReasons(o.kind)}
                                        |-> 0]]

\* whether a PV name of object o is already in the server's pv index
DuplicatePV(st, o) ==
    \E d \in Range(st.devices) : PVsOf(st.objects[d]) \cap PVsOf(o) # {}

\* Server.add_device of the object constructed last
add_device(st) ==
    IF st.err THEN st
    ELSE LET id == Len(st.objects)
         IN IF DuplicatePV(st, st.objects[id])
            THEN [st EXCEPT !.err = TRUE]
            ELSE [st EXCEPT !.devices = Append(@, id)]

(* ---------------------------- SNS_* magnets ---------------------------- *)
\* the initial field of a device is in -MaxField..MaxField, and so is a
\* value a client writes to its field PV
MaxField == 2

\* device names, cut into the parts the constructors look for
SNSNames ==
    {<<"MEBT_Mag:", "PS_QH", "01">>, <<"MEBT_Mag:", "PS_QV", "02">>,
     <<"SCL", "_Mag:", "PS_QH", "18">>, <<"SCL", "_Mag:", "PS_DCH", "00">>}
\* `part in name`
Contains(name, part) == \E k \in 1..Len(name) : name[k] = part

\* initial_dict: None (given = FALSE) or a dict holding the field key
InitialDicts == [given : BOOLEAN, field : -MaxField..MaxField]

\* x / scaler for the scalers the constructors build, 1 and -1
Quot(x, scaler) == IF scaler < 0 THEN -(x \div (-scaler)) ELSE x \div scaler

\* LinearTInv(scaler=...): .raw takes a model value to the PV's value,
\* .real takes the PV's value back to the model value
LinearTInv(scaler) == [scaler |-> scaler, offset |-> 0]
LinearTInv_raw(t, x) == x * t.scaler + t.offset
LinearTInv_real(t, x) == Quot(x - t.offset, t.scaler)

\* Device.register_setting(default=..., transform=...): the new Parameter's
\* value in model units
register_setting(default, transform) == LinearTInv_real(transform, default)

\* a magnet device object with its field setting and the linked readback
MagnetDevice(class, name, initial_dict, transform, field_param) ==
    [class |-> class, name |-> name, initial_dict |-> initial_dict,
     transform |-> transform, field_set |-> field_param, readback |-> field_param,
     written |-> FALSE]
NoDevice == MagnetDevice("none", <<>>, [given |-> FALSE, field |-> 0], LinearTInv(1), 0)

\* SNS_Quadrupole.__init__
SNS_Quadrupole(name, initial_dict) ==
    LET initial_field == IF initial_dict.given THEN initial_dict.field ELSE 0
        pol == IF Contains(name, "PS_QH") THEN -1 ELSE 1
        pol_transform == LinearTInv(pol)
        initial_pv == LinearTInv_raw(pol_transform, initial_field)
    IN MagnetDevice("SNS_Quadrupole", name, initial_dict, pol_transform,
                    register_setting(initial_pv, pol_transform))

\* SNS_Quadrupole_Doublet.__init__
SNS_Quadrupole_Doublet(name, initial_dict) ==
    LET initial_field == IF initial_dict.given THEN initial_dict.field ELSE 0
        pol == IF Contains(name, "SCL") THEN -1 ELSE 1
        pol_transform == LinearTInv(pol)
        initial_pv == LinearTInv_raw(pol_transform, initial_field)
    IN MagnetDevice("SNS_Quadrupole_Doublet", name, initial_dict, pol_transform,
                    register_setting(initial_pv, pol_transform))

\* SNS_Quadrupole_Set.__init__
SNS_Quadrupole_Set(name, initial_dict) ==
    LET initial_field == IF initial_dict.given THEN initial_dict.field ELSE 0
        pol == IF Contains(name, "SCL") THEN -1 ELSE 1
        pol_transform == LinearTInv(pol)
        initial_pv == LinearTInv_raw(pol_transform, initial_field)
    IN MagnetDevice("SNS_Quadrupole_Set", name, initial_dict, pol_transform,
                    register_setting(initial_pv, pol_transform))

\* SNS_Corrector.__init__ with the initial field handed to register_setting
\* in model units, not converted to the PV's value
SNS_Corrector_Unconverted(name, initial_dict) ==
    LET initial_field == IF initial_dict.given THEN initial_dict.field ELSE 0
        pol == IF Contains(name, "SCL") THEN -1 ELSE 1
        pol_transform == LinearTInv(pol)
    IN MagnetDevice("SNS_Corrector", name, initial_dict, pol_transform,
                    register_setting(initial_field, pol_transform))

\* SNS_Corrector.__init__
SNS_Corrector(name, initial_dict) ==
    LET initial_field == IF initial_dict.given THEN initial_dict.field ELSE 0
        pol == IF Contains(name, "SCL") THEN -1 ELSE 1
        pol_transform == LinearTInv(pol)
        initial_pv == LinearTInv_raw(pol_transform, initial_field)
    IN MagnetDevice("SNS_Corrector", name, initial_dict, pol_transform,
                    register_setting(initial_pv, pol_transform))

(* --------------------------- BTF child nodes --------------------------- *)
\* the child nodes of the lattice, in the order a pass tracks them
BTFLattice ==
    <<[type |-> "BTF_BCM", name |-> "BCM04"], [type |-> "BTF_FC_Object", name |-> "FC12_Obj"],
      [type |-> "BTF_FC", name |-> "FC12"], [type |-> "BTF_BCM", name |-> "BCM12"]>>

\* self.parameters as the constructors of the three classes set it
BTF_FCclass_init == [current |-> 0]
BTF_FC_Objectclass_init == [state |-> 1]
BTF_BCMclass_init == [current |-> 0]
BTF_init(node) ==
    CASE node.type = "BTF_FC" -> BTF_FCclass_init
      [] node.type = "BTF_FC_Object" -> BTF_FC_Objectclass_init
      [] node.type = "BTF_BCM" -> BTF_BCMclass_init
(* ------------------------------ start-up ------------------------------- *)
\* ScanQuad with the element's dB/dr taken as it is, without abs()
ScanQuad_Signed(cfg, acc, name) ==
    LET device_dict == cfg.Quadrupole[name]
        initial_field_str == device_dict.dBdr
        ps_name == device_dict.Power_Supply
        shunt == IF device_dict.Power_Shunt \in ShuntNames
                 THEN device_dict.Power_Shunt ELSE "none"
    IN IF device_dict.in_lattice /\ ps_name \in QuadPSNames
       THEN [acc EXCEPT ![ps_name] =
               [quads |-> Append(@.quads,
                                 [name |-> name, or_name |-> name, shunt |-> shunt,
                                  dBdr |-> initial_field_str,
                                  polarity |-> device_dict.Polarity]),
                min_field |-> IF @.min_field > initial_field_str
                              THEN initial_field_str ELSE @.min_field]]
       ELSE acc
\* one pass of the loop over devices_dict["Quadrupole"]
ScanQuad(cfg, acc, name) ==
    LET device_dict == cfg.Quadrupole[name]
        initial_field_str == Abs(device_dict.dBdr)
        ps_name == device_dict.Power_Supply
        shunt == IF device_dict.Power_Shunt \in ShuntNames
                 THEN device_dict.Power_Shunt ELSE "none"
    IN IF device_dict.in_lattice /\ ps_name \in QuadPSNames
       THEN [acc EXCEPT ![ps_name] =
               [quads |-> Append(@.quads,
                                 [name |-> name, or_name |-> name, shunt |-> shunt,
                                  dBdr |-> initial_field_str,
                                  polarity |-> device_dict.Polarity]),
                min_field |-> IF @.min_field > initial_field_str
                              THEN initial_field_str ELSE @.min_field]]
       ELSE acc

RECURSIVE ScanQuads(_, _, _)
ScanQuads(cfg, acc, k) ==
    IF k > Len(QuadOrder) THEN acc
    ELSE ScanQuads(cfg, ScanQuad(cfg, acc, QuadOrder[k]), k + 1)

\* the lattice's element parameters after model.initialize_lattice
InitialModelParams(cfg) ==
    [e \in {n \in QuadNames : cfg.Quadrupole[n].in_lattice}
             \cup {n \in CorrNames : cfg.Corrector[n].in_lattice}
             \cup {n \in BendNames : cfg.Bend[n].in_lattice} |->
       IF e \in QuadNames THEN cfg.Quadrupole[e].dBdr
       ELSE IF e \in CorrNames THEN cfg.Corrector[e].B
       ELSE 0]

\* main() up to the first loop over the devices, for a configuration of cfgs
InitFrom(cfgs, flags) ==
    /\ args \in flags
    /\ printed = {}
    /\ config \in cfgs
    /\ pc = "scan_quads"
    /\ ps_quads = [ps \in QuadPSNames |-> [quads |-> <<>>, min_field |-> Inf]]
    /\ i = 1
    /\ j = 1
    /\ ps_device = 0
    /\ objects = <<>>
    /\ devices = <<>>
    /\ settings = EmptyMap
    /\ readbacks = EmptyMap
    /\ measurements = EmptyMap
    /\ model_params = InitialModelParams(config)
    /\ new_params = EmptyMap
    /\ new_measurements = EmptyMap
    /\ published = [readbacks |-> EmptyMap, measurements |-> EmptyMap]
    /\ ctrlc = FALSE
    /\ loop_time_taken = -1
    /\ slept = -1
    /\ warnings = 0
    /\ trace = <<>>
    /\ nwrites = 0
    /\ written = EmptyMap
    /\ written_at_collect = EmptyMap
    /\ meas_at_tick_start = EmptyMap
    /\ sns_device = NoDevice
    /\ btf_nodes = [k \in DOMAIN BTFLattice |-> BTF_init(BTFLattice[k])]
    /\ bunch = 0
    /\ paramsDict = EmptyMap
    /\ btf_pos = 0
    /\ btf_start = [bunch |-> 0, nodes |-> btf_nodes]

\* every combination of --print_settings and --print_pvs
Flags == [print_settings : BOOLEAN, print_pvs : BOOLEAN]

Init == InitFrom(LoopConfigs, Flags)

Server == ServerState(objects, devices, settings, readbacks, measurements)

\* the server's variables after a statement sequence, and where main goes
Commit(st, next) ==
    /\ objects' = st.objects
    /\ devices' = st.devices
    /\ settings' = st.settings
    /\ readbacks' = st.readbacks
    /\ measurements' = st.measurements
    /\ pc' = IF st.err THEN "config_error" ELSE next

ScanQuadrupoles ==
    /\ pc = "scan_quads"
    /\ ps_quads' = ScanQuads(config, ps_quads, 1)
    /\ pc' = "quad_ps"
    /\ UNCHANGED <<loop_vars, args, printed, sns_vars, btf_vars>>
    /\ UNCHANGED <<config, i, j, ps_device, objects, devices, settings, readbacks,
                   measurements>>

\* QuadSupply handing out the first supply built instead of the current one
QuadSupply_First == IF ps_device > 1 THEN 1 ELSE ps_device

\* the supply a quadrupole of the supply built last is given
QuadSupply == ps_device

\* one pass of `for ps_name, ps_dict in ps_quads.items()` up to its inner loop
BuildQuadSupply ==
    /\ pc = "quad_ps"
    /\ IF i > Len(QuadPSOrder)
       THEN /\ pc' = "correctors"
            /\ i' = 1
            /\ UNCHANGED <<j, ps_device, objects, devices, settings, readbacks, measurements>>
       ELSE LET ps_name == QuadPSOrder[i]
                ps_dict == ps_quads[ps_name]
            IN IF ps_dict.quads = <<>>
               THEN /\ i' = i + 1
                    /\ UNCHANGED <<pc, j, ps_device, objects, devices, settings, readbacks,
                                   measurements>>
               ELSE LET ps_field == ps_dict.min_field
                        st == add_device(Construct(Server,
                                 Device(ps_name, "Quadrupole_Power_Supply", "", 0, 0, 0),
                                 ps_field))
                    IN /\ Commit(st, "quad_dev")
                       /\ ps_device' = Len(st.objects)
                       /\ j' = 1
                       /\ UNCHANGED i
    /\ UNCHANGED <<loop_vars, args, printed, sns_vars, btf_vars>>
    /\ UNCHANGED <<config, ps_quads>>

\* one pass of `for quad_name, quad_model in ps_dict["quads"].items()`
BuildQuad ==
    /\ pc = "quad_dev"
    /\ LET ps_dict == ps_quads[QuadPSOrder[i]]
       IN IF j > Len(ps_dict.quads)
          THEN /\ pc' = "quad_ps"
               /\ i' = i + 1
               /\ UNCHANGED <<j, objects, devices, settings, readbacks, measurements>>
          ELSE LET quad_model == ps_dict.quads[j]
                   ps_field == ps_dict.min_field
                   st == IF quad_model.shunt = "none"
                         THEN add_device(Construct(Server,
                                  Device(quad_model.name, "Quadrupole", quad_model.or_name,
                                         QuadSupply, 0, quad_model.polarity), 0))
                         ELSE LET shunt_field == quad_model.dBdr - ps_field
                                  s1 == add_device(Construct(Server,
                                          Device(quad_model.shunt, "Quadrupole_Power_Shunt",
                                                 "", 0, 0, 0), shunt_field))
                              IN add_device(Construct(s1,
                                   Device(quad_model.name, "Quadrupole", quad_model.or_name,
                                          QuadSupply, Len(s1.objects),
                                          quad_model.polarity), 0))
               IN /\ Commit(st, "quad_dev")
                  /\ j' = j + 1
                  /\ UNCHANGED i
    /\ UNCHANGED <<loop_vars, args, printed, sns_vars, btf_vars>>
    /\ UNCHANGED <<config, ps_quads, ps_device>>

\* AddCorrector with the exception of add_device caught and dropped
AddCorrector_Swallow ==
    /\ pc = "correctors"
    /\ IF i > Len(CorrOrder)
       THEN /\ pc' = "bends"
            /\ i' = 1
            /\ UNCHANGED <<ps_device, objects, devices, settings, readbacks, measurements>>
       ELSE LET name == CorrOrder[i]
                device_dict == config.Corrector[name]
            IN /\ i' = i + 1
               /\ IF device_dict.in_lattice /\ device_dict.Power_Supply \in CorrPSNames
                  THEN LET initial_field == device_dict.B
                           s1 == add_device(Construct(Server,
                                   Device(device_dict.Power_Supply, "Corrector_Power_Supply",
                                          "", 0, 0, 0), initial_field))
                           st == add_device(Construct(s1,
                                   Device(name, "Corrector", name, Len(s1.objects), 0,
                                          device_dict.Polarity), 0))
                       IN /\ Commit([st EXCEPT !.err = FALSE], "correctors")
                          /\ ps_device' = Len(s1.objects)
                  ELSE UNCHANGED <<pc, ps_device, objects, devices, settings, readbacks,
                                   measurements>>
    /\ UNCHANGED <<loop_vars, args, printed, sns_vars, btf_vars>>
    /\ UNCHANGED <<config, ps_quads, j>>

\* one pass of the loop over devices_dict["Corrector"]
AddCorrector ==
    /\ pc = "correctors"
    /\ IF i > Len(CorrOrder)
       THEN /\ pc' = "bends"
            /\ i' = 1
            /\ UNCHANGED <<ps_device, objects, devices, settings, readbacks, measurements>>
       ELSE LET name == CorrOrder[i]
                device_dict == config.Corrector[name]
            IN /\ i' = i + 1
               /\ IF device_dict.in_lattice /\ device_dict.Power_Supply \in CorrPSNames
                  THEN LET initial_field == device_dict.B
                           s1 == add_device(Construct(Server,
                                   Device(device_dict.Power_Supply, "Corrector_Power_Supply",
                                          "", 0, 0, 0), initial_field))
                           st == add_device(Construct(s1,
                                   Device(name, "Corrector", name, Len(s1.objects), 0,
                                          device_dict.Polarity), 0))
                       IN /\ Commit(st, "correctors")
                          /\ ps_device' = Len(s1.objects)
                  ELSE UNCHANGED <<pc, ps_device, objects, devices, settings, readbacks,
                                   measurements>>
    /\ UNCHANGED <<loop_vars, args, printed, sns_vars, btf_vars>>
    /\ UNCHANGED <<config, ps_quads, j>>

\* one pass of the loop over devices_dict["Bend"]
AddBend ==
    /\ pc = "bends"
    /\ IF i > Len(BendOrder)
       THEN /\ pc' = "dummies"
            /\ i' = 1
            /\ UNCHANGED <<ps_device, objects, devices, settings, readbacks, measurements>>
       ELSE LET name == BendOrder[i]
                device_dict == config.Bend[name]
            IN /\ i' = i + 1
               /\ IF device_dict.in_lattice /\ device_dict.Power_Supply \in BendPSNames
                  THEN LET initial_field == 0
                           s1 == add_device(Construct(Server,
                                   Device(device_dict.Power_Supply, "Bend_Power_Supply",
                                          "", 0, 0, 0), initial_field))
                           st == add_device(Construct(s1,
                                   Device(name, "Bend", name, Len(s1.objects), 0, 1), 0))
                       IN /\ Commit(st, "bends")
                          /\ ps_device' = Len(s1.objects)
                  ELSE UNCHANGED <<pc, ps_device, objects, devices, settings, readbacks,
                                   measurements>>
    /\ UNCHANGED <<loop_vars, args, printed, sns_vars, btf_vars>>
    /\ UNCHANGED <<config, ps_quads, j>>

\* the two dummy devices main always adds
AddDummies ==
    /\ pc = "dummies"
    /\ LET s1 == add_device(Construct(Server,
                   Device("Ring_Diag:BCM_D09", "SNS_Dummy_BCM", "HEBT_Diag:BPM11", 0, 0, 0),
                   0))
           st == add_device(Construct(s1,
                   Device("ICS_Tim", "SNS_Dummy_ICS", "ICS_Tim", 0, 0, 0), 0))
       IN Commit(st, "print")
    /\ UNCHANGED <<loop_vars, args, printed, sns_vars, btf_vars>>
    /\ UNCHANGED <<config, ps_quads, i, j, ps_device>>

(* ------------------------------- server -------------------------------- *)
\* Device.get_settings: every setting of the device, by PV name, with its
\* current value
Device_get_settings(objs, setts, id) ==
    [pv \in {<<objs[id].name, r>> : r \in SettingReasons(objs[id].kind)} |->
       setts[<<id, pv[2]>>]]

\* SNS_Dummy_ICS.get_settings left as the base class has it
SNS_Dummy_ICS_get_settings_Base(objs, setts, id) == Device_get_settings(objs, setts, id)

\* SNS_Dummy_ICS.get_settings
SNS_Dummy_ICS_get_settings(objs, setts, id) == EmptyMap

\* device.get_settings() as dispatched on the device's class
get_settings_of(objs, setts, id) ==
    IF objs[id].kind = "SNS_Dummy_ICS"
    THEN SNS_Dummy_ICS_get_settings(objs, setts, id)
    ELSE Device_get_settings(objs, setts, id)

\* Server.get_settings: the devices' results merged, in registration order
RECURSIVE Server_get_settings(_, _, _, _)
Server_get_settings(objs, devs, setts, k) ==
    IF k > Len(devs) THEN EmptyMap
    ELSE Server_get_settings(objs, devs, setts, k + 1)
           @@ get_settings_of(objs, setts, devs[k])

\* the value a magnet hands to the model, from a snapshot of the settings
ModelFacing(objs, snap, m) ==
    LET o == objs[m]
        ps == snap[<<objs[o.power_supply].name, "B_Set">>]
        shunt == IF o.power_shunt = 0 THEN 0
                 ELSE snap[<<objs[o.power_shunt].name, "B_Set">>]
    IN IF o.kind = "Quadrupole" THEN o.polarity * (ps + shunt)
       ELSE IF o.kind = "Corrector" THEN o.polarity * ps
       ELSE ps

Magnets(objs, devs) == {m \in Range(devs) : objs[m].kind \in MagnetKinds}

\* the request the model gets: element name -> value, for every magnet
ModelRequest(objs, devs, snap) ==
    [e \in {objs[m].model_name : m \in Magnets(objs, devs)} |->
       ModelFacing(objs, snap,
                   CHOOSE m \in Magnets(objs, devs) : objs[m].model_name = e)]

\* OrbitModel.update_optics
update_optics(params, request) ==
    [e \in DOMAIN params |-> IF e \in DOMAIN request THEN request[e] ELSE params[e]]

\* Server.update_readbacks: every readback of a registered device takes its
\* linked setting's current value
update_readbacks(objs, devs, setts, rbs) ==
    [k \in DOMAIN rbs |->
       IF k[1] \in Range(devs) THEN setts[LinkedSetting(objs[k[1]], k[1])] ELSE rbs[k]]

\* SNS_Dummy_BCM.c_light [m/s] and SNS_Dummy_BCM.ring_length [mm]
c_light == 299792458
ring_length == 247967

\* beta * c_light / ring_length in Hz, rounded down, for beta in
\* thousandths of c (the product is split so that it stays in 32 bits)
Freq(beta) ==
    (c_light \div ring_length) * beta + ((c_light % ring_length) * beta) \div ring_length

\* SNS_Dummy_BCM.update_measurements putting the frequency to 0 when the
\* output has no beta for the device
SNS_Dummy_BCM_update_measurements_Resetting(o, id, new_ms, meas) ==
    IF o.model_name \in DOMAIN new_ms /\ "beta" \in DOMAIN new_ms[o.model_name]
    THEN [meas EXCEPT ![<<id, "FFT_peak2">>] = Freq(new_ms[o.model_name]["beta"])]
    ELSE [meas EXCEPT ![<<id, "FFT_peak2">>] = 0]
\* SNS_Dummy_BCM.update_measurements
SNS_Dummy_BCM_update_measurements(o, id, new_ms, meas) ==
    IF o.model_name \in DOMAIN new_ms /\ "beta" \in DOMAIN new_ms[o.model_name]
    THEN [meas EXCEPT ![<<id, "FFT_peak2">>] = Freq(new_ms[o.model_name]["beta"])]
    ELSE meas

\* SNS_Dummy_ICS.update_measurements acting only on a model output that
\* has an entry for the device's model_name
SNS_Dummy_ICS_update_measurements_Absorbing(o, id, new_ms, meas) ==
    IF o.model_name \in DOMAIN new_ms
    THEN [meas EXCEPT ![<<id, "Gate_BeamOn:RR">>] = 1, ![<<id, "Util:event46">>] = 0]
    ELSE meas
\* SNS_Dummy_ICS.update_measurements
SNS_Dummy_ICS_update_measurements(o, id, new_ms, meas) ==
    [meas EXCEPT ![<<id, "Gate_BeamOn:RR">>] = 1, ![<<id, "Util:event46">>] = 0]

\* Server.update_measurements: every registered device absorbs the output
RECURSIVE Server_update_measurements(_, _, _, _, _)
Server_update_measurements(objs, devs, new_ms, meas, k) ==
    IF k > Len(devs) THEN meas
    ELSE LET id == devs[k]
             o == objs[id]
             m1 == IF o.kind = "SNS_Dummy_BCM"
                   THEN SNS_Dummy_BCM_update_measurements(o, id, new_ms, meas)
                   ELSE IF o.kind = "SNS_Dummy_ICS"
                   THEN SNS_Dummy_ICS_update_measurements(o, id, new_ms, meas)
                   ELSE meas
         IN Server_update_measurements(objs, devs, new_ms, m1, k + 1)

\* what model.get_measurements() may return: element -> (key -> value)
ModelOutputs ==
    {EmptyMap, [e \in {"HEBT_Diag:BPM11"} |-> [k \in {"phase"} |-> 0]],
     [e \in {"Ring_Diag:BCM_D09"} |-> [k \in {"beta"} |-> MaxBeta]]}
      \cup {[e \in {"HEBT_Diag:BPM11"} |-> [k \in {"beta", "phase"} |->
                                              IF k = "beta" THEN b ELSE 0]] :
              b \in 0..MaxBeta}

\* Server.get_setting_pvs and Server.get_pvs: the PV names of the settings,
\* and of all Parameters, of the registered devices
get_setting_pvs(objs, devs) ==
    UNION {{<<objs[d].name, r>> : r \in SettingReasons(objs[d].kind)} : d \in Range(devs)}
get_pvs(objs, devs) == UNION {PVsOf(objs[d]) : d \in Range(devs)}

\* PrintFlags with --print_pvs looked at first
PrintFlags_PvsFirst ==
    /\ pc = "print"
    /\ IF args.print_pvs
       THEN /\ printed' = get_pvs(objects, devices)
            /\ pc' = "sys_exit"
       ELSE IF args.print_settings
       THEN /\ printed' = get_setting_pvs(objects, devices)
            /\ pc' = "sys_exit"
       ELSE /\ pc' = "start"
            /\ UNCHANGED printed
    /\ UNCHANGED <<loop_vars, args, sns_vars, btf_vars>>
    /\ UNCHANGED <<config, ps_quads, i, j, ps_device, objects, devices, settings, readbacks,
                   measurements>>

\* if args.print_settings: ... sys.exit()  elif args.print_pvs: ... sys.exit()
PrintFlags ==
    /\ pc = "print"
    /\ IF args.print_settings
       THEN /\ printed' = get_setting_pvs(objects, devices)
            /\ pc' = "sys_exit"
       ELSE IF args.print_pvs
       THEN /\ printed' = get_pvs(objects, devices)
            /\ pc' = "sys_exit"
       ELSE /\ pc' = "start"
            /\ UNCHANGED printed
    /\ UNCHANGED <<loop_vars, args, sns_vars, btf_vars>>
    /\ UNCHANGED <<config, ps_quads, i, j, ps_device, objects, devices, settings, readbacks,
                   measurements>>

\* server.start()
ServerStart ==
    /\ pc = "start"
    /\ pc' = "check"
    /\ UNCHANGED <<config, ps_quads, i, j, ps_device, objects, devices, settings, readbacks,
                   measurements>>
    /\ UNCHANGED <<loop_vars, args, printed, sns_vars, btf_vars>>

StartupNext ==
    \/ ScanQuadrupoles
    \/ BuildQuadSupply
    \/ BuildQuad
    \/ AddCorrector
    \/ AddBend
    \/ AddDummies
    \/ PrintFlags
    \/ ServerStart

(* ------------------------------ the loop ------------------------------- *)
LoopPcs ==
    {"check", "get_settings", "update_readbacks", "update_optics", "track",
     "get_measurements", "update_measurements", "update", "timing"}

\* NextPc with update_readbacks moved behind update_measurements
NextPc_ReadbacksLate(p) ==
    CASE p = "check" -> "get_settings"
      [] p = "get_settings" -> "update_optics"
      [] p = "update_optics" -> "track"
      [] p = "track" -> "get_measurements"
      [] p = "get_measurements" -> "update_measurements"
      [] p = "update_measurements" -> "update_readbacks"
      [] p = "update_readbacks" -> "update"
      [] p = "update" -> "timing"
      [] p = "timing" -> "check"

\* NextPc with model.track() called before model.update_optics()
NextPc_TrackFirst(p) ==
    CASE p = "check" -> "get_settings"
      [] p = "get_settings" -> "update_readbacks"
      [] p = "update_readbacks" -> "track"
      [] p = "track" -> "update_optics"
      [] p = "update_optics" -> "get_measurements"
      [] p = "get_measurements" -> "update_measurements"
      [] p = "update_measurements" -> "update"
      [] p = "update" -> "timing"
      [] p = "timing" -> "check"
\* the statement after statement p in the body of `while not_ctrlc():`
NextPc(p) ==
    CASE p = "check" -> "get_settings"
      [] p = "get_settings" -> "update_readbacks"
      [] p = "update_readbacks" -> "update_optics"
      [] p = "update_optics" -> "track"
      [] p = "track" -> "get_measurements"
      [] p = "get_measurements" -> "update_measurements"
      [] p = "update_measurements" -> "update"
      [] p = "update" -> "timing"
      [] p = "timing" -> "check"

\* statement p runs and main moves on
Step(p) ==
    /\ pc = p
    /\ pc' = NextPc(p)
    /\ trace' = Append(trace, p)

wiring_vars ==
    <<args, printed, config, ps_quads, i, j, ps_device, objects, devices, sns_vars, btf_vars>>

\* while not_ctrlc(): the one place the cancel flag is read
Check ==
    /\ pc = "check"
    /\ IF ctrlc
       THEN /\ pc' = "exited"
            /\ UNCHANGED <<trace, loop_time_taken, slept, warnings, meas_at_tick_start>>
       ELSE /\ pc' = NextPc("check")
            /\ trace' = <<>>
            /\ loop_time_taken' = -1
            /\ slept' = -1
            /\ warnings' = 0
            /\ meas_at_tick_start' = measurements
    /\ UNCHANGED wiring_vars
    /\ UNCHANGED <<settings, readbacks, measurements, model_params, new_params,
                   new_measurements, published, ctrlc, nwrites, written,
                   written_at_collect>>

\* GetSettings with the readbacks recomputed by get_settings() as well
GetSettings_Refreshing ==
    /\ Step("get_settings")
    /\ new_params' = Server_get_settings(objects, devices, settings, 1)
    /\ written_at_collect' = written
    /\ readbacks' = update_readbacks(objects, devices, settings, readbacks)
    /\ UNCHANGED wiring_vars
    /\ UNCHANGED <<settings, measurements, model_params, new_measurements,
                   published, ctrlc, loop_time_taken, slept, warnings, nwrites, written,
                   meas_at_tick_start>>
\* new_params = server.get_settings()
GetSettings ==
    /\ Step("get_settings")
    /\ new_params' = Server_get_settings(objects, devices, settings, 1)
    /\ written_at_collect' = written
    /\ UNCHANGED wiring_vars
    /\ UNCHANGED <<settings, readbacks, measurements, model_params, new_measurements,
                   published, ctrlc, loop_time_taken, slept, warnings, nwrites, written,
                   meas_at_tick_start>>

\* server.update_readbacks()
UpdateReadbacks ==
    /\ Step("update_readbacks")
    /\ readbacks' = update_readbacks(objects, devices, settings, readbacks)
    /\ UNCHANGED wiring_vars
    /\ UNCHANGED <<settings, measurements, model_params, new_params, new_measurements,
                   published, ctrlc, loop_time_taken, slept, warnings, nwrites, written,
                   written_at_collect, meas_at_tick_start>>

\* an exception leaves main(): nothing in the loop catches it
Raise ==
    /\ pc' = "crashed"
    /\ UNCHANGED wiring_vars
    /\ UNCHANGED <<settings, readbacks, measurements, model_params, new_params,
                   new_measurements, published, ctrlc, loop_time_taken, slept, warnings,
                   trace, nwrites, written, written_at_collect, meas_at_tick_start>>

\* UpdateOptics with the model left at its old parameters
UpdateOptics_Stale ==
    \/ /\ Step("update_optics")
       /\ UNCHANGED wiring_vars
       /\ UNCHANGED <<settings, readbacks, measurements, model_params, new_params,
                      new_measurements, published, ctrlc, loop_time_taken, slept, warnings,
                      nwrites, written, written_at_collect, meas_at_tick_start>>
    \/ /\ pc = "update_optics"
       /\ Raise

\* model.update_optics(new_params)
UpdateOptics ==
    \/ /\ Step("update_optics")
       /\ model_params' = update_optics(model_params,
                                        ModelRequest(objects, devices, new_params))
       /\ UNCHANGED wiring_vars
       /\ UNCHANGED <<settings, readbacks, measurements, new_params, new_measurements,
                      published, ctrlc, loop_time_taken, slept, warnings, nwrites, written,
                      written_at_collect, meas_at_tick_start>>
    \/ /\ pc = "update_optics"
       /\ Raise

\* Track with the cancel flag also read, and obeyed, after tracking
Track_Interruptible ==
    \/ /\ ~ctrlc
       /\ Step("track")
       /\ UNCHANGED wiring_vars
       /\ UNCHANGED <<settings, readbacks, measurements, model_params, new_params,
                      new_measurements, published, ctrlc, loop_time_taken, slept, warnings,
                      nwrites, written, written_at_collect, meas_at_tick_start>>
    \/ /\ ctrlc
       /\ pc = "track"
       /\ pc' = "exited"
       /\ UNCHANGED wiring_vars
       /\ UNCHANGED <<settings, readbacks, measurements, model_params, new_params,
                      new_measurements, published, ctrlc, loop_time_taken, slept, warnings,
                      trace, nwrites, written, written_at_collect, meas_at_tick_start>>
    \/ /\ pc = "track"
       /\ Raise

\* model.track()
Track ==
    \/ /\ Step("track")
       /\ UNCHANGED wiring_vars
       /\ UNCHANGED <<settings, readbacks, measurements, model_params, new_params,
                      new_measurements, published, ctrlc, loop_time_taken, slept, warnings,
                      nwrites, written, written_at_collect, meas_at_tick_start>>
    \/ /\ pc = "track"
       /\ Raise

\* new_measurements = model.get_measurements()
GetMeasurements ==
    /\ Step("get_measurements")
    /\ new_measurements' \in ModelOutputs
    /\ UNCHANGED wiring_vars
    /\ UNCHANGED <<settings, readbacks, measurements, model_params, new_params, published,
                   ctrlc, loop_time_taken, slept, warnings, nwrites, written,
                   written_at_collect, meas_at_tick_start>>

\* server.update_measurements(new_measurements)
UpdateMeasurements ==
    /\ Step("update_measurements")
    /\ measurements' =
         Server_update_measurements(objects, devices, new_measurements, measurements, 1)
    /\ UNCHANGED wiring_vars
    /\ UNCHANGED <<settings, readbacks, model_params, new_params, new_measurements,
                   published, ctrlc, loop_time_taken, slept, warnings, nwrites, written,
                   written_at_collect, meas_at_tick_start>>

\* server.update(): the readbacks and measurements go out to the clients
ServerUpdate ==
    /\ Step("update")
    /\ published' = [readbacks |-> readbacks, measurements |-> measurements]
    /\ UNCHANGED wiring_vars
    /\ UNCHANGED <<settings, readbacks, measurements, model_params, new_params,
                   new_measurements, ctrlc, loop_time_taken, slept, warnings, nwrites,
                   written, written_at_collect, meas_at_tick_start>>

\* sleep_time = update_period - loop_time_taken
SleepTime(taken) == update_period - taken
\* Overrun taking a tick of exactly one period for an overrun
Overrun_AtZero(sleep_time) == sleep_time <= 0
\* if sleep_time < 0.0:
Overrun(sleep_time) == sleep_time < 0

\* the end of the loop body: the warning or the sleep
Timing ==
    /\ Step("timing")
    /\ \E taken \in 0..MaxElapsed :
         LET sleep_time == SleepTime(taken)
         IN /\ loop_time_taken' = taken
            /\ IF Overrun(sleep_time)
               THEN /\ warnings' = warnings + 1
                    /\ UNCHANGED slept
               ELSE /\ slept' = sleep_time
                    /\ UNCHANGED warnings
    /\ UNCHANGED wiring_vars
    /\ UNCHANGED <<settings, readbacks, measurements, model_params, new_params,
                   new_measurements, published, ctrlc, nwrites, written,
                   written_at_collect, meas_at_tick_start>>

\* a client writes v to a setting PV of a registered device
RemoteWrite ==
    /\ pc \in LoopPcs
    /\ nwrites < MaxWrites
    /\ \E id \in Range(devices), v \in 0..MaxVal :
         \E r \in SettingReasons(objects[id].kind) :
            /\ settings' = [settings EXCEPT ![<<id, r>>] = v]
            /\ written' = (<<objects[id].name, r>> :> v) @@ written
    /\ nwrites' = nwrites + 1
    /\ UNCHANGED wiring_vars
    /\ UNCHANGED <<pc, readbacks, measurements, model_params, new_params, new_measurements,
                   published, ctrlc, loop_time_taken, slept, warnings, trace,
                   written_at_collect, meas_at_tick_start>>

\* the operator's cancel signal sets the flag
CtrlC ==
    /\ pc \in LoopPcs
    /\ ~ctrlc
    /\ ctrlc' = TRUE
    /\ UNCHANGED wiring_vars
    /\ UNCHANGED <<pc, settings, readbacks, measurements, model_params, new_params,
                   new_measurements, published, loop_time_taken, slept, warnings, trace,
                   nwrites, written, written_at_collect, meas_at_tick_start>>

LoopNext ==
    \/ Check
    \/ GetSettings
    \/ UpdateReadbacks
    \/ UpdateOptics
    \/ Track
    \/ GetMeasurements
    \/ UpdateMeasurements
    \/ ServerUpdate
    \/ Timing

Next ==
    \/ StartupNext
    \/ LoopNext
    \/ RemoteWrite
    \/ CtrlC

\* the whole program, for the configurations of LoopConfigs
Spec == Init /\ [][Next]_vars

\* the start-up for every configuration of StartupConfigs, and the clients'
\* writes once the server runs, with main() held before its loop
InitStartup == InitFrom(StartupConfigs, Flags)
NextStartup ==
    \/ StartupNext
    \/ RemoteWrite
SpecStartup == InitStartup /\ [][NextStartup]_vars


(* ---------------------- an SNS_* magnet on its own --------------------- *)
SNSClasses ==
    {"SNS_Quadrupole", "SNS_Quadrupole_Doublet", "SNS_Quadrupole_Set", "SNS_Corrector"}

\* the constructor of a class
SNS_new(class, name, initial_dict) ==
    CASE class = "SNS_Quadrupole" -> SNS_Quadrupole(name, initial_dict)
      [] class = "SNS_Quadrupole_Doublet" -> SNS_Quadrupole_Doublet(name, initial_dict)
      [] class = "SNS_Quadrupole_Set" -> SNS_Quadrupole_Set(name, initial_dict)
      [] class = "SNS_Corrector" -> SNS_Corrector(name, initial_dict)

\* a device of one of the four classes is constructed, with or without an
\* initial_dict
SNS_Construct ==
    /\ sns_device.class = "none"
    /\ \E class \in SNSClasses, name \in SNSNames, initial_dict \in InitialDicts :
         /\ initial_dict.given \/ initial_dict.field = 0
         /\ sns_device' = SNS_new(class, name, initial_dict)
    /\ UNCHANGED <<main_vars, btf_vars>>

\* a client writes v to the field PV: the Parameter takes v in model units
SNS_Write ==
    /\ sns_device.class # "none"
    /\ \E v \in -MaxField..MaxField :
         sns_device' = [sns_device EXCEPT
                          !.field_set = LinearTInv_real(sns_device.transform, v),
                          !.written = TRUE]
    /\ UNCHANGED <<main_vars, btf_vars>>

\* the readback is refreshed from the setting it is linked to
SNS_UpdateReadback ==
    /\ sns_device.class # "none"
    /\ sns_device.readback # sns_device.field_set
    /\ sns_device' = [sns_device EXCEPT !.readback = sns_device.field_set]
    /\ UNCHANGED <<main_vars, btf_vars>>

NextSNS ==
    \/ SNS_Construct
    \/ SNS_Write
    \/ SNS_UpdateReadback

\* one SNS_* magnet device constructed and used, main() not under way
InitSNS ==
    InitFrom({CHOOSE cfg \in LoopConfigs : TRUE},
             {[print_settings |-> FALSE, print_pvs |-> FALSE]})
SpecSNS == InitSNS /\ [][NextSNS]_vars
(* ------------------------ a BTF tracking pass --------------------------- *)
\* a bunch starts a pass with at most MaxParticles particles
MaxParticles == 3
\* paramsDict["beam_current"], in a unit that keeps the currents integers
BeamCurrents == {12}

\* the paramsDict of a pass: with the bunch, or without the key 'bunch'
ParamsDicts ==
    {[k \in {"bunch", "beam_current", "initial_particle_number"} |->
        IF k = "beam_current" THEN c ELSE IF k = "initial_particle_number" THEN n ELSE 1] :
       c \in BeamCurrents, n \in 1..MaxParticles}
    \cup {[k \in {"beam_current", "initial_particle_number"} |->
             IF k = "beam_current" THEN c ELSE n] : c \in BeamCurrents, n \in 1..MaxParticles}

\* part_num / initial_number * initial_beam_current
BTF_current(part_num, pd) ==
    (part_num * pd["beam_current"]) \div pd["initial_particle_number"]

\* BTF_FCclass.trackActions: the node's parameters afterwards
BTF_FCclass_trackActions(parameters, pd, part_num) ==
    IF "bunch" \notin DOMAIN pd THEN parameters
    ELSE IF part_num > 0
    THEN [parameters EXCEPT !.current = BTF_current(part_num, pd)]
    ELSE [parameters EXCEPT !.current = 0]

\* BTF_BCMclass.trackActions: the node's parameters afterwards
BTF_BCMclass_trackActions(parameters, pd, part_num) ==
    IF "bunch" \notin DOMAIN pd THEN parameters
    ELSE IF part_num > 0
    THEN [parameters EXCEPT !.current = BTF_current(part_num, pd)]
    ELSE [parameters EXCEPT !.current = 0]

\* BTF_FC_Objectclass.trackActions never deleting a particle
BTF_FC_Objectclass_trackActions_Passing(parameters, pd, part_num) == part_num

\* BTF_FC_Objectclass.trackActions: the bunch's size afterwards
BTF_FC_Objectclass_trackActions(parameters, pd, part_num) ==
    IF "bunch" \notin DOMAIN pd THEN part_num
    ELSE LET live_state == parameters.state
         IN IF live_state = 1
            THEN IF part_num > 0 THEN 0 ELSE part_num
            ELSE part_num

\* no pass is under way
BTF_Idle == btf_pos = 0 \/ btf_pos > Len(BTFLattice)

\* the lattice starts tracking a bunch, or is tracked without one
BTF_StartPass ==
    /\ BTF_Idle
    /\ \E pd \in ParamsDicts, part_num \in 0..MaxParticles :
         /\ part_num <= pd["initial_particle_number"]
         /\ "bunch" \notin DOMAIN pd => part_num = 0
         /\ paramsDict' = pd
         /\ bunch' = part_num
         /\ btf_start' = [bunch |-> part_num, nodes |-> btf_nodes]
    /\ btf_pos' = 1
    /\ UNCHANGED <<main_vars, sns_vars, btf_nodes>>

\* the pass calls trackActions of a BTF_FCclass node
BTF_TrackFC ==
    /\ ~BTF_Idle
    /\ BTFLattice[btf_pos].type = "BTF_FC"
    /\ btf_nodes' = [btf_nodes EXCEPT ![btf_pos] =
                       BTF_FCclass_trackActions(btf_nodes[btf_pos], paramsDict, bunch)]
    /\ btf_pos' = btf_pos + 1
    /\ UNCHANGED <<main_vars, sns_vars, bunch, paramsDict, btf_start>>

\* the pass calls trackActions of a BTF_BCMclass node
BTF_TrackBCM ==
    /\ ~BTF_Idle
    /\ BTFLattice[btf_pos].type = "BTF_BCM"
    /\ btf_nodes' = [btf_nodes EXCEPT ![btf_pos] =
                       BTF_BCMclass_trackActions(btf_nodes[btf_pos], paramsDict, bunch)]
    /\ btf_pos' = btf_pos + 1
    /\ UNCHANGED <<main_vars, sns_vars, bunch, paramsDict, btf_start>>

\* the pass calls trackActions of a BTF_FC_Objectclass node
BTF_TrackFCObject ==
    /\ ~BTF_Idle
    /\ BTFLattice[btf_pos].type = "BTF_FC_Object"
    /\ bunch' = BTF_FC_Objectclass_trackActions(btf_nodes[btf_pos], paramsDict, bunch)
    /\ btf_pos' = btf_pos + 1
    /\ UNCHANGED <<main_vars, sns_vars, btf_nodes, paramsDict, btf_start>>

\* BTF_FC_Objectclass.setParam('state', new_param), between two passes
BTF_setParam ==
    /\ BTF_Idle
    /\ \E k \in DOMAIN BTFLattice, new_param \in {0, 1, 2} :
         /\ BTFLattice[k].type = "BTF_FC_Object"
         /\ btf_nodes[k].state # new_param
         /\ btf_nodes' = [btf_nodes EXCEPT ![k] = [@ EXCEPT !.state = new_param]]
    /\ UNCHANGED <<main_vars, sns_vars, bunch, paramsDict, btf_pos, btf_start>>

NextBTF ==
    \/ BTF_StartPass
    \/ BTF_TrackFC
    \/ BTF_TrackBCM
    \/ BTF_TrackFCObject
    \/ BTF_setParam

\* the BTF child nodes tracked pass after pass, main() not under way
InitBTF ==
    InitFrom({CHOOSE cfg \in LoopConfigs : TRUE},
             {[print_settings |-> FALSE, print_pvs |-> FALSE]})
SpecBTF == InitBTF /\ [][NextBTF]_vars
(* ------------------------------- claims -------------------------------- *)
Has(a, tr) == \E m \in 1..Len(tr) : tr[m] = a
Before(a, b, tr) == \E m, n \in 1..Len(tr) : m < n /\ tr[m] = a /\ tr[n] = b

\* the setting PVs of the registered devices, and those of the devices
\* other than SNS_Dummy_ICS
SettingPVs(objs, devs) ==
    UNION {{<<objs[d].name, r>> : r \in SettingReasons(objs[d].kind)} : d \in Range(devs)}
ModelSettingPVs(objs, devs) ==
    UNION {{<<objs[d].name, r>> : r \in SettingReasons(objs[d].kind)} :
             d \in {x \in Range(devs) : objs[x].kind # "SNS_Dummy_ICS"}}
\* the Parameter slot behind a PV name of a registered device
SlotOf(objs, devs, pv) == <<CHOOSE d \in Range(devs) : objs[d].name = pv[1], pv[2]>>

C2_ReadbackMatchesModelInput ==
    pc = "timing" =>
        \A k \in DOMAIN readbacks :
            k[1] \in Range(devices) =>
                LET link == LinkedSetting(objects[k[1]], k[1])
                IN published.readbacks[k] = new_params[<<objects[link[1]].name, link[2]>>]

\* C3 as stated: every write accepted before a tick's get_settings() is in
\* that tick's snapshot with its value.
C3_EveryWriteInSnapshot ==
    Has("get_settings", trace) =>
        \A pv \in DOMAIN written_at_collect :
            pv \in DOMAIN new_params /\ new_params[pv] = written_at_collect[pv]

\* C3 amended: the value of the latest write accepted before a tick's
\* get_settings() to a setting of a device other than SNS_Dummy_ICS is in
\* that tick's snapshot, and once Model.update_optics has run in the tick
\* every magnet's element holds the value derived from that snapshot.
C3_WriteVisibleNextCollect ==
    /\ Has("get_settings", trace) =>
         \A pv \in DOMAIN written_at_collect \cap ModelSettingPVs(objects, devices) :
             pv \in DOMAIN new_params /\ new_params[pv] = written_at_collect[pv]
    /\ Has("update_optics", trace) =>
         \A m \in Magnets(objects, devices) :
             model_params[objects[m].model_name] = ModelFacing(objects, new_params, m)

C3_Witness ==
    /\ pc = "track"
    /\ <<"PS_A", "B_Set">> \in DOMAIN written_at_collect
    /\ written_at_collect[<<"PS_A", "B_Set">>] = 0
    /\ model_params["Q1"] = 0

\* C4 as stated: an error raised by Model.update or Model.track does not
\* end the loop, so main() is never left through an exception.
C4_LoopSurvivesModelError == pc # "crashed"

\* C5 as stated: a tick whose Model interaction failed keeps every
\* measurement at its value from before the tick and still publishes.
C5_FailedTickPublishesPrior ==
    pc = "crashed" =>
        /\ measurements = meas_at_tick_start
        /\ Has("update", trace)
        /\ published.measurements = meas_at_tick_start

\* C6: whenever the cancel flag is read, and when the loop has ended on it,
\* the last tick begun has run get_settings, the Model update, the Model
\* track, update_measurements and the flush: no tick is left in part.
C6_CancelOnlyAtBoundary ==
    pc \in {"check", "exited"} =>
        \/ trace = <<>>
        \/ \A s \in {"get_settings", "update_optics", "track", "update_measurements",
                     "update"} : Has(s, trace)

\* the flag was set while the tick was under way, and the tick went on to flush
C6_Witness == pc = "timing" /\ ctrlc /\ Has("update", trace)

\* C7: a finished tick that took longer than the period did not sleep and
\* warned exactly once; one that did not slept period - elapsed and did not
\* warn; and every tick under way began with get_settings.
C7_OverrunWarning ==
    /\ (pc \in {"check", "exited"} /\ trace # <<>>) =>
         /\ loop_time_taken > update_period => (slept = -1 /\ warnings = 1)
         /\ loop_time_taken <= update_period =>
              (slept = update_period - loop_time_taken /\ warnings = 0)
    /\ pc \in LoopPcs \ {"check"} =>
         \/ trace = <<>> /\ pc = "get_settings"
         \/ trace # <<>> /\ trace[1] = "get_settings"

C7_Witness ==
    pc = "check" /\ trace # <<>> /\ loop_time_taken > update_period /\ warnings = 1

\* two entries of the configuration that make main() construct two devices
\* of one name: correctors or bends in the lattice naming one supply, or
\* quadrupoles on known supplies naming one shunt
SharedName(cfg) ==
    \/ \E a, b \in CorrNames :
         /\ a # b
         /\ cfg.Corrector[a].in_lattice /\ cfg.Corrector[b].in_lattice
         /\ cfg.Corrector[a].Power_Supply \in CorrPSNames
         /\ cfg.Corrector[a].Power_Supply = cfg.Corrector[b].Power_Supply
    \/ \E a, b \in BendNames :
         /\ a # b
         /\ cfg.Bend[a].in_lattice /\ cfg.Bend[b].in_lattice
         /\ cfg.Bend[a].Power_Supply \in BendPSNames
         /\ cfg.Bend[a].Power_Supply = cfg.Bend[b].Power_Supply
    \/ \E a, b \in QuadNames :
         /\ a # b
         /\ cfg.Quadrupole[a].in_lattice /\ cfg.Quadrupole[b].in_lattice
         /\ cfg.Quadrupole[a].Power_Supply \in QuadPSNames
         /\ cfg.Quadrupole[b].Power_Supply \in QuadPSNames
         /\ cfg.Quadrupole[a].Power_Shunt \in ShuntNames
         /\ cfg.Quadrupole[a].Power_Shunt = cfg.Quadrupole[b].Power_Shunt

\* C8: once the server runs and the loop is entered, no two registered
\* devices expose one PV name, and the configuration was not one in which
\* two correctors, two bends or two shunted quadrupoles name one device.
C8_NoDuplicatePV ==
    pc \in LoopPcs =>
        /\ \A a, b \in 1..Len(devices) :
             a # b => PVsOf(objects[devices[a]]) \cap PVsOf(objects[devices[b]]) = {}
        /\ ~SharedName(config)

\* two correctors named one supply, and the second add_device raised
C8_Witness ==
    /\ pc = "config_error"
    /\ config.Corrector["C1"].in_lattice /\ config.Corrector["C2"].in_lattice
    /\ config.Corrector["C1"].Power_Supply = "CPS_A"
    /\ config.Corrector["C2"].Power_Supply = "CPS_A"

\* C9 as stated: the snapshot holds every setting of every registered device.
C9_SnapshotHasEverySetting ==
    pc = "update_readbacks" => SettingPVs(objects, devices) \subseteq DOMAIN new_params

\* C9 amended: get_settings() returns the current value of every setting of
\* every registered device other than SNS_Dummy_ICS, nothing of
\* SNS_Dummy_ICS, and changes no Parameter.
C9_SnapshotOfModelSettings ==
    [][(pc = "get_settings" /\ pc' # pc) =>
          /\ DOMAIN new_params' = ModelSettingPVs(objects, devices)
          /\ \A pv \in DOMAIN new_params' :
               new_params'[pv] = settings[SlotOf(objects, devices, pv)]
          /\ settings' = settings
          /\ readbacks' = readbacks
          /\ measurements' = measurements]_vars

\* the trigger was written, and the snapshot taken after it holds the
\* supply's setting
C9_Witness ==
    /\ pc = "update_readbacks"
    /\ <<"ICS_Tim", "Gate_BeamOn:SSTrigger">> \in DOMAIN written_at_collect
    /\ <<"PS_A", "B_Set">> \in DOMAIN new_params

\* the registered device of a name
DeviceNamed(n) == CHOOSE d \in Range(devices) : objects[d].name = n
\* the quadrupoles the configuration puts on supply ps
QuadsOn(cfg, ps) ==
    {n \in QuadNames : cfg.Quadrupole[n].in_lattice /\ cfg.Quadrupole[n].Power_Supply = ps}
\* a registered quadrupole's value for the model, from the current settings
QuadValue(setts, n) ==
    ModelFacing(objects, Server_get_settings(objects, devices, setts, 1), DeviceNamed(n))

\* C10: once the loop is entered, each supply with quadrupoles is registered
\* exactly once and each of its quadrupoles is linked to that one device;
\* and a write to the supply's setting changes the value of each of its
\* quadrupoles by polarity * (new setting - old setting).
C10_SharedSupply ==
    /\ [](pc \in LoopPcs =>
            \A ps \in QuadPSNames :
                QuadsOn(config, ps) # {} =>
                    /\ Cardinality({d \in Range(devices) : objects[d].name = ps}) = 1
                    /\ Cardinality({d \in 1..Len(objects) : objects[d].name = ps}) = 1
                    /\ \A n \in QuadsOn(config, ps) :
                         objects[DeviceNamed(n)].power_supply = DeviceNamed(ps))
    /\ [][\A ps \in QuadPSNames :
            (/\ pc \in LoopPcs
             /\ QuadsOn(config, ps) # {}
             /\ settings' # settings
             /\ \A k \in DOMAIN settings \ {<<DeviceNamed(ps), "B_Set">>} :
                  settings'[k] = settings[k]) =>
                \A n \in QuadsOn(config, ps) :
                    QuadValue(settings', n) - QuadValue(settings, n) =
                        config.Quadrupole[n].Polarity
                          * (settings'[<<DeviceNamed(ps), "B_Set">>]
                             - settings[<<DeviceNamed(ps), "B_Set">>])]_vars

\* two quadrupoles of opposite polarity on PS_A, whose setting was written
C10_Witness ==
    /\ pc = "check"
    /\ QuadsOn(config, "PS_A") = QuadNames
    /\ config.Quadrupole["Q1"].Polarity # config.Quadrupole["Q2"].Polarity
    /\ <<"PS_A", "B_Set">> \in DOMAIN written
    /\ settings[<<DeviceNamed("PS_A"), "B_Set">>] # ps_quads["PS_A"].min_field

\* C11: once the server runs, a remote write to a setting changes no
\* readback, and a readback changes only in the update_readbacks step of a
\* tick; so a read between the write and that step gets the prior value.
C11_WriteKeepsReadbacks ==
    [][(pc \in LoopPcs) =>
         ((nwrites' # nwrites => readbacks' = readbacks)
          /\ (readbacks' # readbacks =>
                (pc = "update_readbacks"
                 /\ trace' = Append(trace, "update_readbacks")
                 /\ settings' = settings)))]_vars

\* a write of 0 to the supply PS_A has landed and the supply's readback
\* still has the value from before the write
C11_Witness ==
    /\ pc \in LoopPcs \ {"check"}
    /\ <<"PS_A", "B_Set">> \in DOMAIN written
    /\ settings[<<DeviceNamed("PS_A"), "B_Set">>] = 0
    /\ readbacks[<<DeviceNamed("PS_A"), "B">>] = 1

\* main has got past server.start()
ServerStarted == pc \in LoopPcs \cup {"exited", "crashed"}

C13_FieldRoundTrip ==
    (sns_device.class \in SNSClasses /\ ~sns_device.written) =>
        /\ sns_device.transform.scaler \in {1, -1}
        /\ sns_device.field_set =
             (IF sns_device.initial_dict.given THEN sns_device.initial_dict.field ELSE 0)

\* a corrector of polarity -1 constructed with a field that is not 0
C13_Witness ==
    /\ sns_device.class = "SNS_Corrector"
    /\ ~sns_device.written
    /\ sns_device.transform.scaler = -1
    /\ sns_device.initial_dict.given
    /\ sns_device.initial_dict.field = MaxField
    /\ sns_device.field_set = MaxField

\* the steps of a tick that C14 names, in the order it gives them
TickSteps ==
    <<"get_settings", "update_optics", "track", "get_measurements", "update_measurements",
      "update">>
InTickSteps(a) == a \in Range(TickSteps)
IsPrefix(s, t) == Len(s) <= Len(t) /\ SubSeq(t, 1, Len(s)) = s

\* C14: the steps get_settings, Model update, Model track, Model
\* measurements, update_measurements and flush that a tick has run so far
\* are an initial part of that order, each at most once; a tick that has
\* come to its end has run all six, each exactly once; and the steps of the
\* next tick begin only after a tick that has run its flush.
C14_StrictSequence ==
    /\ [](/\ IsPrefix(SelectSeq(trace, InTickSteps), TickSteps)
          /\ (pc = "timing" \/ (pc \in {"check", "exited"} /\ trace # <<>>)) =>
               SelectSeq(trace, InTickSteps) = TickSteps)
    /\ [][(trace # <<>> /\ ~IsPrefix(trace, trace')) =>
            /\ trace' = <<>>
            /\ pc = "check" /\ pc' = "get_settings"
            /\ SelectSeq(trace, InTickSteps) = TickSteps
            /\ trace[Len(trace)] = "timing"]_vars

\* a second tick has begun after the flush of the one before it
C14_Witness ==
    /\ pc = "update_readbacks"
    /\ trace = <<"get_settings">>
    /\ published.readbacks # EmptyMap

\* the SNS_Dummy_ICS device is registered with the server
ICSRegistered == \E d \in Range(devices) : objects[d].kind = "SNS_Dummy_ICS"

\* C15: the get_settings() of the registered SNS_Dummy_ICS is empty in every
\* state, whatever its trigger setting holds, and every
\* update_measurements step, whatever the model's output is, leaves its
\* beam-on measurement at 1 and its event measurement at 0.
C15_DummyICS ==
    /\ [](ICSRegistered =>
            /\ <<DeviceNamed("ICS_Tim"), "Gate_BeamOn:SSTrigger">> \in DOMAIN settings
            /\ get_settings_of(objects, settings, DeviceNamed("ICS_Tim")) = EmptyMap)
    /\ [][trace' = Append(trace, "update_measurements") =>
            /\ measurements'[<<DeviceNamed("ICS_Tim"), "Gate_BeamOn:RR">>] = 1
            /\ measurements'[<<DeviceNamed("ICS_Tim"), "Util:event46">>] = 0]_vars

\* the trigger has been written to 1, the model has reported an output that
\* is not empty, and update_measurements has run in the tick
C15_Witness ==
    /\ pc = "update"
    /\ settings[<<DeviceNamed("ICS_Tim"), "Gate_BeamOn:SSTrigger">>] = 1
    /\ new_measurements # EmptyMap
    /\ measurements[<<DeviceNamed("ICS_Tim"), "Gate_BeamOn:RR">>] = 1
    /\ measurements[<<DeviceNamed("ICS_Tim"), "Util:event46">>] = 0

\* the frequency measurement of the SNS_Dummy_BCM main registers
BCMFrequency == <<DeviceNamed("Ring_Diag:BCM_D09"), "FFT_peak2">>

\* C16: an update_measurements step whose model output has an entry for the
\* SNS_Dummy_BCM's model_name with the key 'beta' puts the frequency
\* measurement to beta * c_light / ring_length; with any other output
\* (no entry for the model_name, or an entry without 'beta') the frequency
\* measurement keeps its value.
C16_FrequencyFrame ==
    [][trace' = Append(trace, "update_measurements") =>
         LET model_name == objects[DeviceNamed("Ring_Diag:BCM_D09")].model_name
         IN IF model_name \in DOMAIN new_measurements
               /\ "beta" \in DOMAIN new_measurements[model_name]
            THEN measurements'[BCMFrequency] =
                   (new_measurements[model_name]["beta"] * c_light) \div ring_length
            ELSE measurements'[BCMFrequency] = measurements[BCMFrequency]]_vars

\* update_measurements has run with an output that has no entry for the
\* model_name, and the frequency of an earlier tick is still there
C16_Witness ==
    /\ pc = "update"
    /\ new_measurements # EmptyMap
    /\ "HEBT_Diag:BPM11" \notin DOMAIN new_measurements
    /\ measurements[BCMFrequency] = c_light \div ring_length
    /\ measurements[BCMFrequency] > 0

\* main has built the quadrupoles and their supplies without an error, and
\* no client has written yet
QuadsWired ==
    /\ pc \notin {"scan_quads", "quad_ps", "quad_dev", "config_error"}
    /\ nwrites = 0
\* the supplies that have a quadrupole in the lattice
UsedSupplies == {ps \in QuadPSNames : QuadsOn(config, ps) # {}}
\* the least |dB/dr| of the quadrupoles on supply ps
MinField(ps) ==
    CHOOSE f \in {Abs(config.Quadrupole[n].dBdr) : n \in QuadsOn(config, ps)} :
        \A n \in QuadsOn(config, ps) : f <= Abs(config.Quadrupole[n].dBdr)
\* the current values of the supply and the shunt settings of quadrupole n
SupplyField(n) == settings[<<objects[DeviceNamed(n)].power_supply, "B_Set">>]
ShuntField(n) ==
    IF objects[DeviceNamed(n)].power_shunt = 0 THEN 0
    ELSE settings[<<objects[DeviceNamed(n)].power_shunt, "B_Set">>]

\* C17 as stated: after start-up every used supply holds the least |dB/dr|
\* of its quadrupoles, every shunt holds its quadrupole's |dB/dr| minus the
\* supply's field, which is not negative, and for every quadrupole, with or
\* without a shunt, supply plus shunt is its own |dB/dr|.
C17_SupplyPlusShuntIsField ==
    QuadsWired =>
        \A ps \in UsedSupplies :
            /\ settings[<<DeviceNamed(ps), "B_Set">>] = MinField(ps)
            /\ \A n \in QuadsOn(config, ps) :
                 /\ SupplyField(n) = MinField(ps)
                 /\ ShuntField(n) >= 0
                 /\ SupplyField(n) + ShuntField(n) = Abs(config.Quadrupole[n].dBdr)

\* C17 amended: after start-up every used supply holds the least |dB/dr| of
\* its quadrupoles and is the supply of each of them; a quadrupole with a
\* shunt has a shunt field of its |dB/dr| minus the supply's field, which is
\* not negative, so that supply plus shunt is its |dB/dr|; a quadrupole
\* without a shunt has the supply's field alone, which is its |dB/dr| only
\* if no quadrupole on the supply has a smaller one, and less otherwise.
C17_SupplyAtMinimum ==
    QuadsWired =>
        \A ps \in UsedSupplies :
            /\ settings[<<DeviceNamed(ps), "B_Set">>] = MinField(ps)
            /\ \A n \in QuadsOn(config, ps) :
                 /\ objects[DeviceNamed(n)].power_supply = DeviceNamed(ps)
                 /\ (objects[DeviceNamed(n)].power_shunt # 0) =
                      (config.Quadrupole[n].Power_Shunt \in ShuntNames)
                 /\ objects[DeviceNamed(n)].power_shunt # 0 =>
                      /\ ShuntField(n) = Abs(config.Quadrupole[n].dBdr) - MinField(ps)
                      /\ ShuntField(n) >= 0
                      /\ SupplyField(n) + ShuntField(n) = Abs(config.Quadrupole[n].dBdr)
                 /\ objects[DeviceNamed(n)].power_shunt = 0 =>
                      /\ SupplyField(n) + ShuntField(n) = MinField(ps)
                      /\ SupplyField(n) <= Abs(config.Quadrupole[n].dBdr)

\* two quadrupoles on PS_A: Q1 without a shunt at the least field, Q2 with
\* the shunt making up the difference to its larger field
C17_Witness ==
    /\ pc = "start"
    /\ QuadsOn(config, "PS_A") = QuadNames
    /\ objects[DeviceNamed("Q1")].power_shunt = 0
    /\ objects[DeviceNamed("Q2")].power_shunt # 0
    /\ SupplyField("Q2") = 1
    /\ ShuntField("Q2") = 1
    /\ config.Quadrupole["Q2"].dBdr = -2

\* the Faraday-cup objects of the lattice, and the current nodes that the
\* pass under way has tracked after node o
FCObjects == {k \in DOMAIN BTFLattice : BTFLattice[k].type = "BTF_FC_Object"}
TrackedAfter(o) ==
    {k \in DOMAIN BTFLattice :
       o < k /\ k < btf_pos /\ BTFLattice[k].type \in {"BTF_FC", "BTF_BCM"}}

\* C18: in a pass with a bunch, once a BTF_FC_Objectclass node of state 1
\* has tracked the bunch, the bunch has no particle and every BTF_FCclass
\* or BTF_BCMclass node tracked after it has current 0; once one of another
\* state has tracked it, the bunch is as it was and every such node tracked
\* after it has part_num / initial_particle_number * beam_current; in a
\* pass without 'bunch' in paramsDict no node's parameters change.
C18_FaradayCupBlocksBeam ==
    /\ []((btf_pos >= 1 /\ "bunch" \in DOMAIN paramsDict) =>
            \A o \in FCObjects :
               btf_pos > o =>
                  IF btf_start.nodes[o].state = 1
                  THEN /\ bunch = 0
                       /\ \A k \in TrackedAfter(o) : btf_nodes[k].current = 0
                  ELSE /\ bunch = btf_start.bunch
                       /\ \A k \in TrackedAfter(o) :
                            btf_nodes[k].current * paramsDict["initial_particle_number"] =
                              btf_start.bunch * paramsDict["beam_current"])
    /\ [][(btf_pos' = btf_pos + 1 /\ btf_pos >= 1 /\ "bunch" \notin DOMAIN paramsDict) =>
            (btf_nodes' = btf_nodes /\ bunch' = bunch)]_vars

\* a pass has ended in which the node before the Faraday cup saw the beam,
\* the cup of state 1 took it, and the two nodes behind it report 0
C18_Witness ==
    /\ btf_pos > Len(BTFLattice)
    /\ "bunch" \in DOMAIN paramsDict
    /\ btf_start.bunch > 0
    /\ btf_start.nodes[2].state = 1
    /\ bunch = 0
    /\ btf_nodes[1].current > 0
    /\ btf_nodes[3].current = 0
    /\ btf_nodes[4].current = 0
    /\ btf_start.nodes[4].current > 0

====
